---- MODULE Spec2Model ----
(***************************************************************************)
(* Model of the feedback router (Server/app/routers/feedback.py).          *)
(*                                                                         *)
(* Every handler is an async coroutine: each `await` on the document store *)
(* is one atomic step, and the steps of different requests interleave.     *)
(* The user directory is never written by this router, so a directory      *)
(* lookup is folded into the store step next to it.                        *)
(*                                                                         *)
(* Document.save() writes every field of the in-memory copy back to the    *)
(* store (a full $set with upsert), so a request that read a record before *)
(* another request changed it writes its stale copy over that change.      *)
(***************************************************************************)
EXTENDS Integers, Sequences, FiniteSets, Bags, TLC

\* ------------------------------------------------------------------
\* Bounds
\* ------------------------------------------------------------------
MaxFeedback == 2
MaxRequests == 2
\* Requests admitted past their checks (those that go on to write)
MaxOps == 3

\* Two requests in flight at a time: enough for every interleaving of a pair
\* of handlers.
Procs == {1, 2}
FbIds == 1..MaxFeedback
ReqIds == 1..MaxRequests

\* ------------------------------------------------------------------
\* User directory
\* ------------------------------------------------------------------
\* employee_id is unique within a role only: "X" is both a manager and an
\* employee account.
UserM1 == [employee_id |-> "M1", name |-> "Alice", role |-> "manager"]
UserXm == [employee_id |-> "X", name |-> "Bob", role |-> "manager"]
UserXe == [employee_id |-> "X", name |-> "Carol", role |-> "employee"]
UserE1 == [employee_id |-> "E1", name |-> "Dave", role |-> "employee"]

\* The User collection in natural (insertion) order: the manager account X
\* was registered before the employee account X.
Directory == <<UserM1, UserXm, UserXe, UserE1>>

\* Identifiers a caller may pass in a path
Ids == {"M1", "X", "E1"}

NoUser == [employee_id |-> "", name |-> "", role |-> "none"]

VARIABLES
    directory,   \* User collection, in natural order (never written here)
    feedback,    \* Feedback collection: id -> document
    nextFb,      \* next fresh Feedback id
    requests,    \* FeedbackRequest collection: id -> document
    nextReq,     \* next fresh FeedbackRequest id
    notifs,      \* Notification collection: a bag of documents
    pc,          \* per request slot: the await the coroutine is suspended at
    loc,         \* per request slot: the coroutine's local variables
    ops,         \* number of requests admitted so far
    resp         \* the response sent by the last step, NoResp when it sent none

vars == <<directory, feedback, nextFb, requests, nextReq, notifs, pc, loc, ops, resp>>

\* ------------------------------------------------------------------
\* Directory lookups
\* ------------------------------------------------------------------
\* find_one returns the first matching document in natural order
FirstMatch(dir, M) ==
    IF M = {} THEN NoUser
    ELSE dir[CHOOSE i \in M : \A j \in M : i <= j]

\* User.find_one(User.employee_id == id, User.role == role)
find_one_role(dir, id, role) ==
    FirstMatch(dir, { i \in 1..Len(dir) :
                        dir[i].employee_id = id /\ dir[i].role = role })

\* User.find_one(User.employee_id == id): no role filter
find_one_id(dir, id) ==
    FirstMatch(dir, { i \in 1..Len(dir) : dir[i].employee_id = id })

Found(u) == u.role # "none"

\* ------------------------------------------------------------------
\* Payloads
\* ------------------------------------------------------------------
NoTags == [some |-> FALSE, val |-> <<>>]
SomeTags(t) == [some |-> TRUE, val |-> t]

\* `tags or []`
tags_or_empty(t) == IF t.some /\ t.val # <<>> THEN t.val ELSE <<>>

ContentA ==
    [strengths |-> "s1", improvement |-> "i1", sentiment |-> "positive",
     anonymous |-> FALSE, tags |-> NoTags]

ContentB ==
    [strengths |-> "s2", improvement |-> "i2", sentiment |-> "negative",
     anonymous |-> TRUE, tags |-> SomeTags(<<"t1">>)]

\* FeedbackCreate bodies posted to create_feedback: a valid pair for each
\* manager, an employee_id that is no employee, a manager id that is no manager
FeedbackCreate ==
    { [employee_id |-> pr[1], manager_employee_id |-> pr[2], content |-> ContentA] :
        pr \in { <<"E1", "M1">>, <<"E1", "X">>, <<"M1", "M1">>, <<"E1", "E1">> } }

\* FeedbackCreate bodies put to update_feedback (employee_id is not read there)
FeedbackUpdate ==
    { [employee_id |-> "E1", manager_employee_id |-> m, content |-> c] :
        m \in {"M1", "X", "E1"}, c \in {ContentA, ContentB} }

\* CommentIn: "Z" has no account at all
CommentIn ==
    { [employee_id |-> "E1", text |-> "c1"], [employee_id |-> "E1", text |-> "c2"],
      [employee_id |-> "X", text |-> "c1"], [employee_id |-> "Z", text |-> "c1"] }

\* FeedbackRequestIn
FeedbackRequestIn ==
    { [employee_id |-> e, manager_employee_id |-> m, message |-> "please review"] :
        e \in {"E1", "M1"}, m \in {"M1", "X", "E1"} }

\* ------------------------------------------------------------------
\* Documents
\* ------------------------------------------------------------------
NewFeedback(payload) ==
    [ employee_id |-> payload.employee_id,
      manager_employee_id |-> payload.manager_employee_id,
      strengths |-> payload.content.strengths,
      improvement |-> payload.content.improvement,
      sentiment |-> payload.content.sentiment,
      anonymous |-> payload.content.anonymous,
      tags |-> tags_or_empty(payload.content.tags),
      acknowledged |-> FALSE,
      comments |-> <<>> ]

Notification(to, mgrId, mgrName, msg) ==
    [ employee_id |-> to, manager_employee_id |-> mgrId,
      manager_name |-> mgrName, message |-> msg ]

NewFeedbackMsg(mgrName) == "You have received new feedback from manager " \o mgrName
RequestMsg(empId) == "Feedback request from employee " \o empId
AckMsg(empId) == "Employee " \o empId \o " acknowledged your feedback."
CommentMsg(empId) == "Employee " \o empId \o " commented on your feedback."

\* markdown2.markdown on a plain one-line text
markdown(t) == "<p>" \o t \o "</p>\n"

\* Document.save(): every field of the in-memory copy is written under its
\* id, and the document is created when it no longer exists.
save(coll, id, doc) == [i \in DOMAIN coll \cup {id} |-> IF i = id THEN doc ELSE coll[i]]

\* Document.delete(): delete_one by id
delete(coll, id) == [i \in DOMAIN coll \ {id} |-> coll[i]]

\* FeedbackOut.from_feedback(fb, manager_name, comments)
FeedbackOut(id, fb, mgrName, comments) ==
    [ id |-> id,
      employee_id |-> fb.employee_id,
      manager_employee_id |-> fb.manager_employee_id,
      manager_name |-> mgrName,
      strengths |-> fb.strengths,
      improvement |-> fb.improvement,
      sentiment |-> fb.sentiment,
      anonymous |-> fb.anonymous,
      tags |-> fb.tags,
      acknowledged |-> fb.acknowledged,
      comments |-> comments ]

Idle == [op |-> "none"]

\* The handler that answered, its answer, and for the answers that depend on
\* the caller's manager id (update_feedback 403, count_unseen_requests,
\* delete_all) that id
Response(op, who, status, body) == [op |-> op, who |-> who, status |-> status, body |-> body]

NoResp == Response("none", "", 0, "")

\* Notification(...).insert()
insert(coll, doc) == coll (+) SetToBag({doc})

\* ------------------------------------------------------------------
\* Init
\* ------------------------------------------------------------------
Init ==
    /\ directory = Directory
    /\ feedback = << >>
    /\ nextFb = 1
    /\ requests = << >>
    /\ nextReq = 1
    /\ notifs = EmptyBag
    /\ pc = [p \in Procs |-> "idle"]
    /\ loc = [p \in Procs |-> Idle]
    /\ ops = 0
    /\ resp = NoResp

\* The last response has left the server
Ready == resp = NoResp

\* A request is admitted when it passes its checks
Admit == ops < MaxOps /\ ops' = ops + 1

\* The response that ends a request
Reply(p, op, who, status, body) ==
    /\ resp' = Response(op, who, status, body)
    /\ ops' = ops
    /\ pc' = [pc EXCEPT ![p] = "idle"]
    /\ loc' = [loc EXCEPT ![p] = Idle]

\* ------------------------------------------------------------------
\* create_feedback
\* ------------------------------------------------------------------
\* create_feedback with its two writes swapped in time: the Notification goes
\* out in the first step, before any Feedback is stored
create_feedback_notification_first(p, payload) ==
    /\ Ready
    /\ pc[p] = "idle"
    /\ nextFb <= MaxFeedback
    /\ LET mgr == find_one_role(directory, payload.manager_employee_id, "manager")
           employee == find_one_role(directory, payload.employee_id, "employee")
       IN IF ~Found(mgr)
          THEN /\ Reply(p, "create_feedback", "", 404, "Manager not found")
               /\ UNCHANGED notifs
          ELSE IF ~Found(employee)
          THEN /\ Reply(p, "create_feedback", "", 404, "Employee not found")
               /\ UNCHANGED notifs
          ELSE /\ notifs' = insert(notifs,
                              Notification(payload.employee_id, mgr.employee_id,
                                           mgr.name, NewFeedbackMsg(mgr.name)))
               /\ pc' = [pc EXCEPT ![p] = "create_notify"]
               /\ loc' = [loc EXCEPT ![p] =
                            [op |-> "create_feedback", id |-> nextFb,
                             fb |-> NewFeedback(payload), mgr |-> mgr]]
               /\ resp' = NoResp
               /\ Admit
    /\ UNCHANGED <<directory, feedback, nextFb, requests, nextReq>>

create_feedback(p, payload) ==
    /\ Ready
    /\ pc[p] = "idle"
    /\ nextFb <= MaxFeedback
    /\ LET mgr == find_one_role(directory, payload.manager_employee_id, "manager")
           employee == find_one_role(directory, payload.employee_id, "employee")
       IN IF ~Found(mgr)
          THEN /\ Reply(p, "create_feedback", "", 404, "Manager not found")
               /\ UNCHANGED <<feedback, nextFb>>
          ELSE IF ~Found(employee)
          THEN /\ Reply(p, "create_feedback", "", 404, "Employee not found")
               /\ UNCHANGED <<feedback, nextFb>>
          ELSE /\ feedback' = save(feedback, nextFb, NewFeedback(payload))
               /\ nextFb' = nextFb + 1
               /\ pc' = [pc EXCEPT ![p] = "create_notify"]
               /\ loc' = [loc EXCEPT ![p] =
                            [op |-> "create_feedback", id |-> nextFb,
                             fb |-> NewFeedback(payload), mgr |-> mgr]]
               /\ resp' = NoResp
               /\ Admit
    /\ UNCHANGED <<directory, requests, nextReq, notifs>>

\* create_feedback_notify addressing the manager, as request_feedback does
create_feedback_notify_to_manager(p) ==
    /\ Ready
    /\ pc[p] = "create_notify"
    /\ notifs' = insert(notifs,
                   Notification(loc[p].mgr.employee_id, loc[p].mgr.employee_id,
                                loc[p].mgr.name, NewFeedbackMsg(loc[p].mgr.name)))
    /\ Reply(p, "create_feedback", "", 200,
             FeedbackOut(loc[p].id, loc[p].fb, loc[p].mgr.name, loc[p].fb.comments))
    /\ UNCHANGED <<directory, feedback, nextFb, requests, nextReq>>

create_feedback_notify(p) ==
    /\ Ready
    /\ pc[p] = "create_notify"
    /\ notifs' = insert(notifs,
                   Notification(loc[p].fb.employee_id, loc[p].mgr.employee_id,
                                loc[p].mgr.name, NewFeedbackMsg(loc[p].mgr.name)))
    /\ Reply(p, "create_feedback", "", 200,
             FeedbackOut(loc[p].id, loc[p].fb, loc[p].mgr.name, loc[p].fb.comments))
    /\ UNCHANGED <<directory, feedback, nextFb, requests, nextReq>>

\* ------------------------------------------------------------------
\* request_feedback
\* ------------------------------------------------------------------
NewFeedbackRequest(payload) ==
    [ employee_id |-> payload.employee_id,
      manager_employee_id |-> payload.manager_employee_id,
      message |-> payload.message,
      seen |-> FALSE ]

request_feedback(p, payload) ==
    /\ Ready
    /\ pc[p] = "idle"
    /\ nextReq <= MaxRequests
    /\ LET emp == find_one_role(directory, payload.employee_id, "employee")
           mgr == find_one_role(directory, payload.manager_employee_id, "manager")
       IN IF ~Found(emp)
          THEN /\ Reply(p, "request_feedback", "", 404, "Employee not found")
               /\ UNCHANGED <<requests, nextReq>>
          ELSE IF ~Found(mgr)
          THEN /\ Reply(p, "request_feedback", "", 404, "Manager not found")
               /\ UNCHANGED <<requests, nextReq>>
          ELSE /\ requests' = save(requests, nextReq, NewFeedbackRequest(payload))
               /\ nextReq' = nextReq + 1
               /\ pc' = [pc EXCEPT ![p] = "request_notify"]
               /\ loc' = [loc EXCEPT ![p] =
                            [op |-> "request_feedback", payload |-> payload, mgr |-> mgr]]
               /\ resp' = NoResp
               /\ Admit
    /\ UNCHANGED <<directory, feedback, nextFb, notifs>>

request_feedback_notify(p) ==
    /\ Ready
    /\ pc[p] = "request_notify"
    /\ notifs' = insert(notifs,
                   Notification(loc[p].payload.manager_employee_id,
                                loc[p].payload.manager_employee_id,
                                loc[p].mgr.name,
                                RequestMsg(loc[p].payload.employee_id)))
    /\ Reply(p, "request_feedback", "", 200, "Feedback request submitted successfully")
    /\ UNCHANGED <<directory, feedback, nextFb, requests, nextReq>>

\* ------------------------------------------------------------------
\* mark_feedback_request_seen
\* ------------------------------------------------------------------
mark_feedback_request_seen(p, request_id) ==
    /\ Ready
    /\ pc[p] = "idle"
    /\ IF request_id \notin DOMAIN requests
       THEN Reply(p, "mark_feedback_request_seen", "", 404, "Feedback request not found")
       ELSE /\ pc' = [pc EXCEPT ![p] = "seen_save"]
            /\ loc' = [loc EXCEPT ![p] =
                         [op |-> "mark_feedback_request_seen", id |-> request_id,
                          req |-> [requests[request_id] EXCEPT !.seen = TRUE]]]
            /\ resp' = NoResp
            /\ Admit
    /\ UNCHANGED <<directory, feedback, nextFb, requests, nextReq, notifs>>

mark_feedback_request_seen_save(p) ==
    /\ Ready
    /\ pc[p] = "seen_save"
    /\ requests' = save(requests, loc[p].id, loc[p].req)
    /\ Reply(p, "mark_feedback_request_seen", "", 200, "Feedback request marked as seen")
    /\ UNCHANGED <<directory, feedback, nextFb, nextReq, notifs>>

\* ------------------------------------------------------------------
\* count_unseen_requests
\* ------------------------------------------------------------------
\* FeedbackRequest.find(manager_employee_id == manager_id, seen == False).count()
RECURSIVE CountFrom(_, _, _)
CountFrom(reqs, i, manager_id) ==
    IF i > MaxRequests THEN 0
    ELSE (IF i \in DOMAIN reqs
             /\ reqs[i].manager_employee_id = manager_id
             /\ reqs[i].seen = FALSE
          THEN 1 ELSE 0) + CountFrom(reqs, i + 1, manager_id)

\* unseen_count without the seen == False filter
unseen_count_any(reqs, manager_id) ==
    Cardinality({ i \in DOMAIN reqs : reqs[i].manager_employee_id = manager_id })

unseen_count(reqs, manager_id) == CountFrom(reqs, 1, manager_id)

count_unseen_requests(p, manager_id) ==
    /\ Ready
    /\ pc[p] = "idle"
    /\ LET mgr == find_one_role(directory, manager_id, "manager")
       IN IF ~Found(mgr)
          THEN Reply(p, "count_unseen_requests", manager_id, 404, "Manager not found")
          ELSE Reply(p, "count_unseen_requests", manager_id, 200,
                     [unseen_count |-> unseen_count(requests, manager_id)])
    /\ UNCHANGED <<directory, feedback, nextFb, requests, nextReq, notifs>>

\* ------------------------------------------------------------------
\* get_feedback_history
\* ------------------------------------------------------------------
RECURSIVE comments_html(_)
comments_html(cs) ==
    IF cs = <<>> THEN <<>>
    ELSE <<[employee_id |-> Head(cs).employee_id, text |-> markdown(Head(cs).text)]>>
         \o comments_html(Tail(cs))

RECURSIVE HistoryFrom(_, _, _, _)
HistoryFrom(dir, fbs, i, employee_id) ==
    IF i > MaxFeedback THEN <<>>
    ELSE (IF i \in DOMAIN fbs /\ fbs[i].employee_id = employee_id
          THEN LET mgr == find_one_id(dir, fbs[i].manager_employee_id)
               IN <<FeedbackOut(i, fbs[i],
                                IF Found(mgr) THEN mgr.name ELSE "Unknown",
                                comments_html(fbs[i].comments))>>
          ELSE <<>>) \o HistoryFrom(dir, fbs, i + 1, employee_id)

\* The list get_feedback_history returns: one read of the collection
get_feedback_history(dir, fbs, employee_id) == HistoryFrom(dir, fbs, 1, employee_id)

\* ------------------------------------------------------------------
\* acknowledge
\* ------------------------------------------------------------------
\* acknowledge made a true no-op on a record that is already acknowledged
acknowledge_once(p, feedback_id) ==
    /\ Ready
    /\ pc[p] = "idle"
    /\ IF feedback_id \notin DOMAIN feedback
       THEN Reply(p, "acknowledge", "", 404, "Feedback not found")
       ELSE IF feedback[feedback_id].acknowledged
       THEN Reply(p, "acknowledge", "", 200, "Feedback acknowledged")
       ELSE /\ pc' = [pc EXCEPT ![p] = "ack_save"]
            /\ loc' = [loc EXCEPT ![p] =
                         [op |-> "acknowledge", id |-> feedback_id,
                          fb |-> [feedback[feedback_id] EXCEPT !.acknowledged = TRUE]]]
            /\ resp' = NoResp
            /\ Admit
    /\ UNCHANGED <<directory, feedback, nextFb, requests, nextReq, notifs>>

acknowledge(p, feedback_id) ==
    /\ Ready
    /\ pc[p] = "idle"
    /\ IF feedback_id \notin DOMAIN feedback
       THEN Reply(p, "acknowledge", "", 404, "Feedback not found")
       ELSE /\ pc' = [pc EXCEPT ![p] = "ack_save"]
            /\ loc' = [loc EXCEPT ![p] =
                         [op |-> "acknowledge", id |-> feedback_id,
                          fb |-> [feedback[feedback_id] EXCEPT !.acknowledged = TRUE]]]
            /\ resp' = NoResp
            /\ Admit
    /\ UNCHANGED <<directory, feedback, nextFb, requests, nextReq, notifs>>

acknowledge_save(p) ==
    /\ Ready
    /\ pc[p] = "ack_save"
    /\ feedback' = save(feedback, loc[p].id, loc[p].fb)
    /\ pc' = [pc EXCEPT ![p] = "ack_notify"]
    /\ resp' = NoResp
    /\ ops' = ops
    /\ UNCHANGED <<directory, nextFb, requests, nextReq, notifs, loc>>

acknowledge_notify(p) ==
    /\ Ready
    /\ pc[p] = "ack_notify"
    /\ LET fb == loc[p].fb
           mgr == find_one_id(directory, fb.manager_employee_id)
       IN notifs' = IF Found(mgr)
                    THEN insert(notifs,
                           Notification(fb.manager_employee_id, fb.manager_employee_id,
                                        mgr.name, AckMsg(fb.employee_id)))
                    ELSE notifs
    /\ Reply(p, "acknowledge", "", 200, "Feedback acknowledged")
    /\ UNCHANGED <<directory, feedback, nextFb, requests, nextReq>>

\* ------------------------------------------------------------------
\* update_feedback
\* ------------------------------------------------------------------
\* update_feedback that only checks that the caller is some manager
update_feedback_any_manager(p, feedback_id, upd) ==
    /\ Ready
    /\ pc[p] = "idle"
    /\ IF feedback_id \notin DOMAIN feedback
       THEN Reply(p, "update_feedback", "", 404, "Feedback not found")
       ELSE LET fb == feedback[feedback_id]
                mgr == find_one_role(directory, upd.manager_employee_id, "manager")
            IN IF ~Found(mgr)
               THEN Reply(p, "update_feedback", upd.manager_employee_id, 403, "Not authorized")
               ELSE /\ pc' = [pc EXCEPT ![p] = "update_save"]
                    /\ loc' = [loc EXCEPT ![p] =
                                 [op |-> "update_feedback", id |-> feedback_id, mgr |-> mgr,
                                  fb |-> [fb EXCEPT
                                            !.strengths = upd.content.strengths,
                                            !.improvement = upd.content.improvement,
                                            !.sentiment = upd.content.sentiment,
                                            !.tags = tags_or_empty(upd.content.tags),
                                            !.anonymous = upd.content.anonymous]]]
                    /\ resp' = NoResp
                    /\ Admit
    /\ UNCHANGED <<directory, feedback, nextFb, requests, nextReq, notifs>>

update_feedback(p, feedback_id, upd) ==
    /\ Ready
    /\ pc[p] = "idle"
    /\ IF feedback_id \notin DOMAIN feedback
       THEN Reply(p, "update_feedback", "", 404, "Feedback not found")
       ELSE LET fb == feedback[feedback_id]
                mgr == find_one_role(directory, upd.manager_employee_id, "manager")
            IN IF ~Found(mgr) \/ fb.manager_employee_id # mgr.employee_id
               THEN Reply(p, "update_feedback", upd.manager_employee_id, 403, "Not authorized")
               ELSE /\ pc' = [pc EXCEPT ![p] = "update_save"]
                    /\ loc' = [loc EXCEPT ![p] =
                                 [op |-> "update_feedback", id |-> feedback_id, mgr |-> mgr,
                                  fb |-> [fb EXCEPT
                                            !.strengths = upd.content.strengths,
                                            !.improvement = upd.content.improvement,
                                            !.sentiment = upd.content.sentiment,
                                            !.tags = tags_or_empty(upd.content.tags),
                                            !.anonymous = upd.content.anonymous]]]
                    /\ resp' = NoResp
                    /\ Admit
    /\ UNCHANGED <<directory, feedback, nextFb, requests, nextReq, notifs>>

update_feedback_save(p) ==
    /\ Ready
    /\ pc[p] = "update_save"
    /\ feedback' = save(feedback, loc[p].id, loc[p].fb)
    /\ Reply(p, "update_feedback", "", 200,
             FeedbackOut(loc[p].id, loc[p].fb, loc[p].mgr.name, loc[p].fb.comments))
    /\ UNCHANGED <<directory, nextFb, requests, nextReq, notifs>>

\* ------------------------------------------------------------------
\* delete_feedback
\* ------------------------------------------------------------------
delete_feedback(p, feedback_id) ==
    /\ Ready
    /\ pc[p] = "idle"
    /\ IF feedback_id \notin DOMAIN feedback
       THEN Reply(p, "delete_feedback", "", 404, "Feedback not found")
       ELSE LET mgr == find_one_role(directory,
                                     feedback[feedback_id].manager_employee_id, "manager")
            IN IF ~Found(mgr)
               THEN Reply(p, "delete_feedback", "", 403, "Not authorized")
               ELSE /\ pc' = [pc EXCEPT ![p] = "delete_delete"]
                    /\ loc' = [loc EXCEPT ![p] = [op |-> "delete_feedback", id |-> feedback_id]]
                    /\ resp' = NoResp
                    /\ Admit
    /\ UNCHANGED <<directory, feedback, nextFb, requests, nextReq, notifs>>

delete_feedback_delete(p) ==
    /\ Ready
    /\ pc[p] = "delete_delete"
    /\ feedback' = delete(feedback, loc[p].id)
    /\ Reply(p, "delete_feedback", "", 200, "Deleted")
    /\ UNCHANGED <<directory, nextFb, requests, nextReq, notifs>>

\* ------------------------------------------------------------------
\* delete_all
\* ------------------------------------------------------------------
\* The same query keyed on employee_id instead of manager_employee_id
by_manager_employee_field(fbs, manager_id) ==
    { i \in DOMAIN fbs : fbs[i].employee_id = manager_id }

\* Feedback.find(Feedback.manager_employee_id == manager_id)
by_manager(fbs, manager_id) ==
    { i \in DOMAIN fbs : fbs[i].manager_employee_id = manager_id }

delete_all(p, manager_id) ==
    /\ Ready
    /\ pc[p] = "idle"
    /\ LET mgr == find_one_role(directory, manager_id, "manager")
           hit == by_manager(feedback, manager_id)
       IN IF ~Found(mgr)
          THEN /\ Reply(p, "delete_all", manager_id, 403, "Not authorized")
               /\ UNCHANGED feedback
          ELSE /\ feedback' = [i \in DOMAIN feedback \ hit |-> feedback[i]]
               /\ Admit
               /\ resp' = Response("delete_all", manager_id, 200, [deleted |-> Cardinality(hit)])
               /\ UNCHANGED <<pc, loc>>
    /\ UNCHANGED <<directory, nextFb, requests, nextReq, notifs>>

\* ------------------------------------------------------------------
\* comment
\* ------------------------------------------------------------------
comment(p, feedback_id, cin) ==
    /\ Ready
    /\ pc[p] = "idle"
    /\ IF feedback_id \notin DOMAIN feedback
       THEN Reply(p, "comment", "", 404, "Feedback not found")
       ELSE LET fb == feedback[feedback_id]
                emp == find_one_id(directory, cin.employee_id)
            IN IF ~Found(emp) \/ emp.role # "employee"
               THEN Reply(p, "comment", "", 403, "Not authorized")
               ELSE /\ Admit
                    /\ pc' = [pc EXCEPT ![p] = "comment_save"]
                    /\ loc' = [loc EXCEPT ![p] =
                                 [op |-> "comment", id |-> feedback_id, cin |-> cin,
                                  fb |-> [fb EXCEPT !.comments =
                                            Append(@, [employee_id |-> cin.employee_id,
                                                       text |-> cin.text])]]]
                    /\ resp' = NoResp
    /\ UNCHANGED <<directory, feedback, nextFb, requests, nextReq, notifs>>

comment_save(p) ==
    /\ Ready
    /\ pc[p] = "comment_save"
    /\ feedback' = save(feedback, loc[p].id, loc[p].fb)
    /\ pc' = [pc EXCEPT ![p] = "comment_notify"]
    /\ resp' = NoResp
    /\ ops' = ops
    /\ UNCHANGED <<directory, nextFb, requests, nextReq, notifs, loc>>

comment_notify(p) ==
    /\ Ready
    /\ pc[p] = "comment_notify"
    /\ LET fb == loc[p].fb
           mgr == find_one_id(directory, fb.manager_employee_id)
       IN notifs' = IF Found(mgr)
                    THEN insert(notifs,
                           Notification(fb.manager_employee_id, fb.manager_employee_id,
                                        mgr.name, CommentMsg(loc[p].cin.employee_id)))
                    ELSE notifs
    /\ Reply(p, "comment", "", 200, "Comment added")
    /\ UNCHANGED <<directory, feedback, nextFb, requests, nextReq>>

\* ------------------------------------------------------------------
\* A store call that raises ends the request where it stands: nothing is
\* retried and nothing already written is rolled back.
\* ------------------------------------------------------------------
store_error(p) ==
    /\ Ready
    /\ pc[p] # "idle"
    /\ Reply(p, loc[p].op, "", 500, "Internal Server Error")
    /\ UNCHANGED <<directory, feedback, nextFb, requests, nextReq, notifs>>

\* The response is sent to the caller
respond ==
    /\ resp # NoResp
    /\ resp' = NoResp
    /\ UNCHANGED <<directory, feedback, nextFb, requests, nextReq, notifs, pc, loc, ops>>

\* ------------------------------------------------------------------
\* Specification
\* ------------------------------------------------------------------
\* The feedback lifecycle
NextFeedback ==
    \/ respond
    \/ \E p \in Procs :
        \/ \E payload \in FeedbackCreate : create_feedback(p, payload)
        \/ create_feedback_notify(p)
        \/ \E f \in FbIds : acknowledge(p, f)
        \/ acknowledge_save(p)
        \/ acknowledge_notify(p)
        \/ \E f \in FbIds, upd \in FeedbackUpdate : update_feedback(p, f, upd)
        \/ update_feedback_save(p)
        \/ \E f \in FbIds : delete_feedback(p, f)
        \/ delete_feedback_delete(p)
        \/ \E m \in Ids : delete_all(p, m)
        \/ \E f \in FbIds, cin \in CommentIn : comment(p, f, cin)
        \/ comment_save(p)
        \/ comment_notify(p)
        \/ store_error(p)

\* The feedback requests
NextRequests ==
    \/ respond
    \/ \E p \in Procs :
        \/ \E payload \in FeedbackRequestIn : request_feedback(p, payload)
        \/ request_feedback_notify(p)
        \/ \E r \in ReqIds : mark_feedback_request_seen(p, r)
        \/ mark_feedback_request_seen_save(p)
        \/ \E m \in Ids : count_unseen_requests(p, m)
        \/ store_error(p)

Spec == Init /\ [][NextFeedback]_vars

SpecRequests == Init /\ [][NextRequests]_vars

\* ------------------------------------------------------------------
\* Properties
\* ------------------------------------------------------------------
IsManager(id) ==
    \E i \in 1..Len(directory) :
        directory[i].employee_id = id /\ directory[i].role = "manager"

IsEmployee(id) ==
    \E i \in 1..Len(directory) :
        directory[i].employee_id = id /\ directory[i].role = "employee"

IsPrefix(a, b) == Len(a) <= Len(b) /\ \A i \in 1..Len(a) : a[i] = b[i]

\* The documents of a bag that satisfy Test, with their multiplicities
Matching(bag, Test(_)) == [n \in { m \in BagToSet(bag) : Test(m) } |-> bag[n]]

IsSubmitNotif(n) == n.message = NewFeedbackMsg(n.manager_name)
IsAckNotif(n) == \E e \in Ids : n.message = AckMsg(e)

\* notifs' is notifs plus exactly one document, and that document is n
AddsOne(n) == notifs' = notifs (+) SetToBag({n})

Untouched(ids) == \A i \in ids : i \in DOMAIN feedback' /\ feedback'[i] = feedback[i]

\* C1: for a valid (employee, manager) pair, a successful create_feedback adds
\* exactly one Feedback (acknowledged = false, no comments) in its first write
\* and exactly one Notification addressed to the employee in its second; no
\* other Feedback or Notification is added, changed or removed by either.
C1_SubmitAddsOneFeedbackOneNotification ==
    [][\A p \in Procs :
        /\ \A payload \in FeedbackCreate :
             (create_feedback(p, payload)
                /\ IsManager(payload.manager_employee_id)
                /\ IsEmployee(payload.employee_id))
             => /\ pc'[p] = "create_notify"
                /\ nextFb \notin DOMAIN feedback
                /\ DOMAIN feedback' = DOMAIN feedback \cup {nextFb}
                /\ Untouched(DOMAIN feedback)
                /\ feedback'[nextFb].employee_id = payload.employee_id
                /\ feedback'[nextFb].manager_employee_id = payload.manager_employee_id
                /\ feedback'[nextFb].acknowledged = FALSE
                /\ feedback'[nextFb].comments = <<>>
                /\ notifs' = notifs
        /\ create_feedback_notify(p)
             => /\ feedback' = feedback
                /\ resp'.status = 200
                /\ \E n \in BagToSet(notifs') :
                     /\ AddsOne(n)
                     /\ n.employee_id = loc[p].fb.employee_id
                     /\ IsSubmitNotif(n)
      ]_vars

\* Two submits have completed: two records and two submit notifications
C1_Witness ==
    /\ Cardinality(DOMAIN feedback) = 2
    /\ BagCardinality(Matching(notifs, IsSubmitNotif)) = 2
    /\ \A n \in BagToSet(notifs) : n.employee_id = "E1"
    /\ resp.op = "create_feedback" /\ resp.status = 200

\* C2: update_feedback with a manager_employee_id other than the record's
\* stored one, valid manager or not, answers 403 and writes nothing.
C2_ForeignManagerForbidden ==
    [][\A p \in Procs, f \in FbIds, upd \in FeedbackUpdate :
        (/\ pc[p] = "idle"
         /\ f \in DOMAIN feedback
         /\ upd.manager_employee_id # feedback[f].manager_employee_id
         /\ update_feedback(p, f, upd))
        => /\ resp' = Response("update_feedback", upd.manager_employee_id,
                               403, "Not authorized")
           /\ pc'[p] = "idle"
           /\ feedback' = feedback
      ]_vars

\* Manager X, a valid manager, was refused on a record owned by M1
C2_Witness ==
    /\ resp.op = "update_feedback" /\ resp.status = 403 /\ resp.who = "X"
    /\ IsManager("X")
    /\ \A f \in DOMAIN feedback : feedback[f].manager_employee_id = "M1"
    /\ DOMAIN feedback # {}

\* C3: once a stored record is acknowledged it stays acknowledged for as long
\* as it exists, whatever steps interleave.
C3_AcknowledgedStaysTrue ==
    [][\A f \in FbIds :
        (f \in DOMAIN feedback /\ feedback[f].acknowledged /\ f \in DOMAIN feedback')
        => feedback'[f].acknowledged
      ]_vars

\* C4: the stored comment sequence of a record only grows by appending,
\* whatever steps interleave.
C4_CommentsOnlyAppend ==
    [][\A f \in FbIds :
        (f \in DOMAIN feedback /\ f \in DOMAIN feedback')
        => IsPrefix(feedback[f].comments, feedback'[f].comments)
      ]_vars

\* The entry of record id in the list get_feedback_history returns
HistoryEntry(dir, fbs, employee_id, id) ==
    LET h == get_feedback_history(dir, fbs, employee_id)
    IN h[CHOOSE k \in 1..Len(h) : h[k].id = id]

\* C5: the write of a successful update_feedback replaces strengths,
\* improvement, sentiment, tags and anonymous of the target and leaves its
\* acknowledged flag, comments, employee_id, manager_employee_id and every
\* other record as they were stored; get_feedback_history then shows the new
\* five fields with the acknowledged value and comments stored before.
C5_UpdateTouchesFiveFields ==
    [][\A p \in Procs :
        (update_feedback_save(p) /\ loc[p].id \in DOMAIN feedback)
        => LET id == loc[p].id
               old == feedback[id]
               new == feedback'[id]
               out == HistoryEntry(directory, feedback', old.employee_id, id)
           IN /\ new.strengths = loc[p].fb.strengths
              /\ new.improvement = loc[p].fb.improvement
              /\ new.sentiment = loc[p].fb.sentiment
              /\ new.tags = loc[p].fb.tags
              /\ new.anonymous = loc[p].fb.anonymous
              /\ new.acknowledged = old.acknowledged
              /\ new.comments = old.comments
              /\ new.employee_id = old.employee_id
              /\ new.manager_employee_id = old.manager_employee_id
              /\ Untouched(DOMAIN feedback \ {id})
              /\ out.strengths = new.strengths
              /\ out.acknowledged = old.acknowledged
              /\ out.comments = comments_html(old.comments)
      ]_vars

\* C6: count_unseen_requests answers the number of the manager's requests with
\* seen = false; a request_feedback to a manager raises that number by one, the
\* write of mark_feedback_request_seen lowers it by one when the stored request
\* was unseen and leaves it otherwise, and it is 0 once all are seen.
Unseen(reqs, m) ==
    { i \in DOMAIN reqs : reqs[i].manager_employee_id = m /\ reqs[i].seen = FALSE }

C6_CountUnseenExact ==
    [][\A p \in Procs :
        /\ \A m \in Ids :
             (count_unseen_requests(p, m) /\ IsManager(m))
             => /\ resp'.status = 200
                /\ resp'.body.unseen_count = Cardinality(Unseen(requests, m))
                /\ (\A i \in DOMAIN requests :
                      requests[i].manager_employee_id = m => requests[i].seen)
                   => resp'.body.unseen_count = 0
        /\ \A payload \in FeedbackRequestIn :
             (request_feedback(p, payload) /\ pc'[p] = "request_notify")
             => \A m \in Ids :
                  Cardinality(Unseen(requests', m)) =
                    Cardinality(Unseen(requests, m))
                      + (IF m = payload.manager_employee_id THEN 1 ELSE 0)
        /\ mark_feedback_request_seen_save(p)
             => \A m \in Ids :
                  Cardinality(Unseen(requests', m)) =
                    Cardinality(Unseen(requests, m))
                      - (IF loc[p].id \in Unseen(requests, m) THEN 1 ELSE 0)
      ]_vars

\* E1 asked M1, the request was marked seen, and count_unseen("M1") answered 0
C6_Witness ==
    /\ resp.op = "count_unseen_requests" /\ resp.status = 200 /\ resp.who = "M1"
    /\ resp.body.unseen_count = 0
    /\ \E i \in DOMAIN requests :
         /\ requests[i].manager_employee_id = "M1"
         /\ requests[i].employee_id = "E1"
         /\ requests[i].seen

\* C7: every acknowledge that answers 200, a repeated one included, wrote
\* acknowledged = true and appends exactly one Notification addressed to the
\* feedback's manager saying the employee acknowledged.
C7_AcknowledgeNotifiesEachCall ==
    [][/\ \A p \in Procs :
            acknowledge_save(p)
            => /\ loc[p].id \in DOMAIN feedback'
               /\ feedback'[loc[p].id].acknowledged
               /\ notifs' = notifs
       /\ (resp'.op = "acknowledge" /\ resp'.status = 200)
            => \E p \in Procs :
                 /\ pc[p] = "ack_notify"
                 /\ loc[p].fb.acknowledged
                 /\ feedback' = feedback
                 /\ \E n \in BagToSet(notifs') :
                      /\ AddsOne(n)
                      /\ n.employee_id = loc[p].fb.manager_employee_id
                      /\ n.message = AckMsg(loc[p].fb.employee_id)
      ]_vars

\* One record acknowledged twice: the flag is true and two notifications
\* went to its manager
C7_Witness ==
    /\ resp.op = "acknowledge" /\ resp.status = 200
    /\ DOMAIN feedback = {1}
    /\ feedback[1].acknowledged
    /\ BagCardinality(Matching(notifs, IsAckNotif)) = 2
    /\ \A n \in BagToSet(Matching(notifs, IsAckNotif)) :
         n.employee_id = feedback[1].manager_employee_id

C9_CommentAllowedIffEmployee ==
    [][\A p \in Procs, f \in FbIds, cin \in CommentIn :
        (comment(p, f, cin) /\ f \in DOMAIN feedback)
        => IF IsEmployee(cin.employee_id)
           THEN pc'[p] = "comment_save"
           ELSE /\ resp'.status = 403
                /\ feedback' = feedback
                /\ notifs' = notifs
      ]_vars

\* C10: the Feedback write and the Notification write of create_feedback are
\* separate steps: a request that ends between them leaves the stored Feedback
\* in place with no Notification, and there are never more submit
\* Notifications than Feedback records written before them.
FeedbackWritten == nextFb - 1

AwaitingNotify == Cardinality({ p \in Procs : pc[p] = "create_notify" })

C10_FeedbackBeforeNotification ==
    [][/\ \A p \in Procs :
            (store_error(p) /\ pc[p] = "create_notify")
            => /\ feedback' = feedback
               /\ notifs' = notifs
       /\ BagCardinality(Matching(notifs', IsSubmitNotif)) + AwaitingNotify'
            <= FeedbackWritten'
      ]_vars

\* The request ended between the two writes: the record is stored, no
\* Notification exists, and nothing is left in flight
C10_Witness ==
    /\ resp.op = "create_feedback" /\ resp.status = 500
    /\ DOMAIN feedback = {1}
    /\ notifs = EmptyBag
    /\ \A p \in Procs : pc[p] = "idle"

====
